---- MODULE Spec2Model ----
(***************************************************************************)
(* Address detection of go-getter: the Detect / CtxDetect dispatchers, the *)
(* Git detectors and the forced 'git::' filepath resolver.                 *)
(*                                                                         *)
(* A Go string is a sequence of one-character strings, so that prefixes,   *)
(* indexes and splits are computed as the code computes them.              *)
(* File paths follow the Unix build of path/filepath (separator '/').      *)
(***************************************************************************)
EXTENDS Integers, Sequences, FiniteSets, TLC

\* ------------------------------------------------------------------------
\* Bounds of the model
\* ------------------------------------------------------------------------
MaxChain == 2

MaxSubSegs == 1

\* ------------------------------------------------------------------------
\* Go strings
\* ------------------------------------------------------------------------
Letters ==
  {"a", "b", "c", "d", "e", "f", "g", "h", "i", "j", "k", "l", "m",
   "n", "o", "p", "q", "r", "s", "t", "u", "v", "w", "x", "y", "z"}

Digits == {"0", "1", "2", "3", "4", "5", "6", "7", "8", "9"}

AlphaNum == Letters \cup Digits

\* s[from..] (1-based), the Go slice s[from-1:]
Drop(s, from) == SubSeq(s, from, Len(s))

\* s[..n], the Go slice s[:n]
Take(s, n) == SubSeq(s, 1, n)

HasPrefix(s, p) == Len(p) <= Len(s) /\ Take(s, Len(p)) = p

HasSuffix(s, p) == Len(p) <= Len(s) /\ Drop(s, Len(s) - Len(p) + 1) = p

\* strings.Index, 1-based; 0 when sub does not occur
Index(s, sub) ==
  LET hits == {i \in 1..(Len(s) - Len(sub) + 1) : SubSeq(s, i, i + Len(sub) - 1) = sub}
  IN IF hits = {} THEN 0 ELSE CHOOSE i \in hits : \A j \in hits : i <= j

LastIndex(s, sub) ==
  LET hits == {i \in 1..(Len(s) - Len(sub) + 1) : SubSeq(s, i, i + Len(sub) - 1) = sub}
  IN IF hits = {} THEN 0 ELSE CHOOSE i \in hits : \A j \in hits : i >= j

Contains(s, sub) == Index(s, sub) > 0

AllIn(s, set) == \A i \in 1..Len(s) : s[i] \in set

\* strings.Split(s, "/")
RECURSIVE SplitSlash(_)
SplitSlash(s) ==
  LET i == Index(s, <<"/">>)
  IN IF i = 0 THEN <<s>> ELSE <<Take(s, i - 1)>> \o SplitSlash(Drop(s, i + 1))

RECURSIVE JoinSlash(_)
JoinSlash(segs) ==
  IF segs = <<>> THEN <<>>
  ELSE IF Len(segs) = 1 THEN segs[1]
  ELSE segs[1] \o <<"/">> \o JoinSlash(Tail(segs))

\* ------------------------------------------------------------------------
\* path/filepath (Unix)
\* ------------------------------------------------------------------------
filepath_IsAbs(p) == HasPrefix(p, <<"/">>)

\* the lexical processing of filepath.Clean: the stack of kept segments
RECURSIVE CleanSegs(_, _, _)
CleanSegs(segs, out, rooted) ==
  IF segs = <<>> THEN out
  ELSE IF Head(segs) = <<>> \/ Head(segs) = <<".">> THEN CleanSegs(Tail(segs), out, rooted)
  ELSE IF Head(segs) # <<".", ".">> THEN CleanSegs(Tail(segs), Append(out, Head(segs)), rooted)
  ELSE IF out # <<>> /\ out[Len(out)] # <<".", ".">>
       THEN CleanSegs(Tail(segs), Take(out, Len(out) - 1), rooted)
  ELSE IF rooted THEN CleanSegs(Tail(segs), out, rooted)
  ELSE CleanSegs(Tail(segs), Append(out, Head(segs)), rooted)

filepath_Clean(p) ==
  LET build(rooted, segs) ==
        IF rooted THEN <<"/">> \o JoinSlash(segs)
        ELSE IF segs = <<>> THEN <<".">> ELSE JoinSlash(segs)
  IN IF p = <<>> THEN <<".">>
     ELSE build(filepath_IsAbs(p), CleanSegs(SplitSlash(p), <<>>, filepath_IsAbs(p)))

\* filepath.Join of two elements: empty elements are ignored, the result is Cleaned
filepath_Join(a, b) ==
  IF a = <<>> /\ b = <<>> THEN <<>>
  ELSE IF a = <<>> THEN filepath_Clean(b)
  ELSE IF b = <<>> THEN filepath_Clean(a)
  ELSE filepath_Clean(a \o <<"/">> \o b)

\* filepath.ToSlash is the identity where the separator is '/'
filepath_ToSlash(p) == p

\* ------------------------------------------------------------------------
\* net/url (helper/url.Parse is net/url.Parse on the Unix build)
\* ------------------------------------------------------------------------
EmptyURL ==
  [Scheme |-> <<>>, Opaque |-> <<>>, HasUser |-> FALSE, Username |-> <<>>,
   HasPass |-> FALSE, Password |-> <<>>, Host |-> <<>>, Path |-> <<>>,
   RawPath |-> <<>>, RawQuery |-> <<>>, ForceQuery |-> FALSE]

\* strings.Cut(s, sep): <<before, after, found>>
Cut(s, sep) ==
  LET at(i) == IF i = 0 THEN <<s, <<>>, FALSE>>
               ELSE <<Take(s, i - 1), Drop(s, i + Len(sep)), TRUE>>
  IN at(Index(s, sep))

\* getScheme: [ok, scheme, rest]; the scheme is a letter followed by letters,
\* digits, '+', '-', '.', up to the first ':'; a ':' in front is an error
RECURSIVE getSchemeAt(_, _)
getSchemeAt(raw, i) ==
  IF i > Len(raw) THEN [ok |-> TRUE, scheme |-> <<>>, rest |-> raw]
  ELSE IF raw[i] \in Letters THEN getSchemeAt(raw, i + 1)
  ELSE IF raw[i] \in Digits \cup {"+", "-", "."}
       THEN IF i = 1 THEN [ok |-> TRUE, scheme |-> <<>>, rest |-> raw]
            ELSE getSchemeAt(raw, i + 1)
  ELSE IF raw[i] = ":"
       THEN IF i = 1 THEN [ok |-> FALSE, scheme |-> <<>>, rest |-> <<>>]
            ELSE [ok |-> TRUE, scheme |-> Take(raw, i - 1), rest |-> Drop(raw, i + 1)]
  ELSE [ok |-> TRUE, scheme |-> <<>>, rest |-> raw]

getScheme(raw) == getSchemeAt(raw, 1)

\* validOptionalPort: "" or ':' followed by digits only
validOptionalPort(port) ==
  port = <<>> \/ (port[1] = ":" /\ AllIn(Tail(port), Digits))

\* parseHost: the text after the last ':' must be a port
parseHostOk(host) ==
  LET at(i) == i = 0 \/ validOptionalPort(Drop(host, i))
  IN at(LastIndex(host, <<":">>))

UserinfoChars == AlphaNum \cup {"-", ".", "_", ":", "~", "=", "%", "@", "+", ","}

\* parseAuthority: [ok, HasUser, Username, HasPass, Password, Host]; the
\* userinfo is what precedes the last '@', split at its first ':'
parseAuthority(authority) ==
  LET withUser(host, userinfo, c) ==
        [ok |-> parseHostOk(host) /\ AllIn(userinfo, UserinfoChars),
         HasUser |-> TRUE, Username |-> c[1], HasPass |-> c[3], Password |-> c[2],
         Host |-> host]
      at(i) ==
        IF i = 0
        THEN [ok |-> parseHostOk(authority), HasUser |-> FALSE, Username |-> <<>>,
              HasPass |-> FALSE, Password |-> <<>>, Host |-> authority]
        ELSE withUser(Drop(authority, i + 1), Take(authority, i - 1),
                      Cut(Take(authority, i - 1), <<":">>))
  IN at(LastIndex(authority, <<"@">>))

Count(s, ch) == Cardinality({i \in 1..Len(s) : s[i] = ch})

\* url.Parse: [ok, u]
url_Parse(rawURL) ==
  LET failed == [ok |-> FALSE, u |-> EmptyURL]
      \* `//authority/path`
      withAuthority(base, a, path) ==
        IF ~a.ok THEN failed
        ELSE [ok |-> TRUE,
              u |-> [base EXCEPT !.HasUser = a.HasUser, !.Username = a.Username,
                                 !.HasPass = a.HasPass, !.Password = a.Password,
                                 !.Host = a.Host, !.Path = path]]
      splitAuthority(base, afterSl, k) ==
        IF k = 0 THEN withAuthority(base, parseAuthority(afterSl), <<>>)
        ELSE withAuthority(base, parseAuthority(Take(afterSl, k - 1)), Drop(afterSl, k))
      \* what follows the scheme, with the query cut off
      withRest(scheme, rest, base) ==
        IF ~HasPrefix(rest, <<"/">>) /\ scheme # <<>>
        THEN [ok |-> TRUE, u |-> [base EXCEPT !.Opaque = rest]]
        ELSE IF ~HasPrefix(rest, <<"/">>) /\ Contains(Cut(rest, <<"/">>)[1], <<":">>)
        THEN failed
        ELSE IF HasPrefix(rest, <<"/", "/">>)
                /\ (scheme # <<>> \/ ~HasPrefix(rest, <<"/", "/", "/">>))
        THEN splitAuthority(base, Drop(rest, 3), Index(Drop(rest, 3), <<"/">>))
        ELSE [ok |-> TRUE, u |-> [base EXCEPT !.Path = rest]]
      withQuery(sc, force, q) ==
        withRest(sc.scheme,
                 IF force THEN Take(sc.rest, Len(sc.rest) - 1) ELSE q[1],
                 [EmptyURL EXCEPT !.Scheme = sc.scheme,
                                  !.RawQuery = IF force THEN <<>> ELSE q[2],
                                  !.ForceQuery = force])
      withScheme(sc) ==
        IF ~sc.ok THEN failed
        ELSE withQuery(sc, HasSuffix(sc.rest, <<"?">>) /\ Count(sc.rest, "?") = 1,
                       Cut(sc.rest, <<"?">>))
  IN withScheme(getScheme(rawURL))

\* escape(s, mode): every character the mode reserves becomes %XX
RECURSIVE escape(_, _)
escape(s, reserved) ==
  IF s = <<>> THEN <<>>
  ELSE (IF Head(s) \notin reserved THEN <<Head(s)>>
        ELSE IF Head(s) = "?" THEN <<"%", "3", "F">>
        ELSE IF Head(s) = "@" THEN <<"%", "4", "0">>
        ELSE IF Head(s) = "/" THEN <<"%", "2", "F">>
        ELSE IF Head(s) = "\\" THEN <<"%", "5", "C">>
        ELSE <<"%", "3", "A">>) \o escape(Tail(s), reserved)

\* URL.EscapedPath: RawPath when it is a valid encoding of Path
EscapedPath(u) ==
  IF u.RawPath # <<>> /\ ~Contains(u.RawPath, <<"?">>) /\ ~Contains(u.RawPath, <<"\\">>)
     /\ u.RawPath = u.Path
  THEN u.RawPath
  ELSE escape(u.Path, {"?", "\\"})

\* Userinfo.String
userinfo_String(u) ==
  escape(u.Username, {"@", "/", "?", ":"})
  \o (IF u.HasPass THEN <<":">> \o escape(u.Password, {"@", "/", "?", ":"}) ELSE <<>>)

\* URL.String
url_String(u) ==
  LET assemble(head, path, query) ==
        head
        \o (IF path # <<>> /\ path[1] # "/" /\ u.Host # <<>> THEN <<"/">> ELSE <<>>)
        \o (IF head = <<>> /\ Contains(Cut(path, <<"/">>)[1], <<":">>)
            THEN <<".", "/">> ELSE <<>>)
        \o path \o query
      scheme == IF u.Scheme # <<>> THEN u.Scheme \o <<":">> ELSE <<>>
      auth == IF u.Scheme # <<>> \/ u.Host # <<>> \/ u.HasUser
              THEN (IF u.Host # <<>> \/ u.Path # <<>> \/ u.HasUser
                    THEN <<"/", "/">> ELSE <<>>)
                   \o (IF u.HasUser THEN userinfo_String(u) \o <<"@">> ELSE <<>>)
                   \o escape(u.Host, {"@", "/", "?"})
              ELSE <<>>
      query == IF u.ForceQuery \/ u.RawQuery # <<>> THEN <<"?">> \o u.RawQuery ELSE <<>>
  IN IF u.Opaque # <<>> THEN scheme \o u.Opaque \o query
     ELSE assemble(scheme \o auth, EscapedPath(u), query)

\* ------------------------------------------------------------------------
\* Errors: <<>> is nil, otherwise <<kind, argument>>
\* ------------------------------------------------------------------------
NoErr == <<>>

Err(kind, arg) == <<kind, arg>>

\* ------------------------------------------------------------------------
\* Address grammar
\* ------------------------------------------------------------------------
\* getForcedGetter: [force, src].  The token is what precedes the first "::"
\* when that is a non-empty backend name (letters and digits, so no '/') and
\* something follows; otherwise there is no token and src is returned whole.
getForcedGetter(src) ==
  LET at(i) ==
        IF i > 1 /\ AllIn(Take(src, i - 1), AlphaNum) /\ i + 1 < Len(src)
        THEN [force |-> Take(src, i - 1), src |-> Drop(src, i + 2)]
        ELSE [force |-> <<>>, src |-> src]
  IN at(Index(src, <<":", ":">>))

\* SourceDirSubdir: [src, subdir].  The first "//" before the query that is
\* not the "://" of a scheme splits src from the subdir; the query is put
\* back on src.
SourceDirSubdir(src) ==
  LET \* the query of the subdir goes back onto src
      split(base, sub, sq) ==
        IF sq = 0 THEN [src |-> base, subdir |-> sub]
        ELSE [src |-> base \o Drop(sub, sq), subdir |-> Take(sub, sq - 1)]
      \* idx: where "//" is found in src[offset:stop], 0 when it is not
      found(offset, idx) ==
        IF idx = 0 THEN [src |-> src, subdir |-> <<>>]
        ELSE split(Take(src, idx + offset - 1), Drop(src, idx + offset + 2),
                   Index(Drop(src, idx + offset + 2), <<"?">>))
      \* offset: past the "://" of a scheme
      from(stop, offset) == found(offset, Index(SubSeq(src, offset + 1, stop), <<"/", "/">>))
      scheme(stop, sch) == from(stop, IF sch = 0 THEN 0 ELSE sch + 2)
      \* stop: the query is not searched
      upTo(stop) == scheme(stop, Index(Take(src, stop), <<":", "/", "/">>))
      query(q) == upTo(IF q = 0 THEN Len(src) ELSE q - 1)
  IN query(Index(src, <<"?">>))

\* ------------------------------------------------------------------------
\* SSH pseudo-URL parser
\* ------------------------------------------------------------------------
\* detectSSH: [matched, u, err].  user@host:path[?query] with a non-empty
\* user, a non-empty host holding no ':' and no '/', and a non-empty path;
\* nothing that already parses as a scheme-qualified URI.
detectSSH(src) ==
  LET none == [matched |-> FALSE, u |-> EmptyURL, err |-> NoErr]
      build(user, host, c) ==
        [matched |-> TRUE,
         u |-> [EmptyURL EXCEPT !.Scheme = <<"s", "s", "h">>, !.HasUser = TRUE,
                                !.Username = user, !.Host = host,
                                !.Path = c[1], !.RawQuery = c[2]],
         err |-> NoErr]
      hostPath(user, afterAt, col) ==
        IF col < 2 \/ Contains(Take(afterAt, col - 1), <<"/">>) \/ col = Len(afterAt)
        THEN none
        ELSE build(user, Take(afterAt, col - 1), Cut(Drop(afterAt, col + 1), <<"?">>))
      userAt(at) ==
        IF at < 2 THEN none
        ELSE hostPath(Take(src, at - 1), Drop(src, at + 1),
                      Index(Drop(src, at + 1), <<":">>))
      probe(p) == IF p.ok /\ p.u.Scheme # <<>> THEN none ELSE userAt(Index(src, <<"@">>))
  IN probe(url_Parse(src))

\* ------------------------------------------------------------------------
\* Git detectors
\* ------------------------------------------------------------------------
sGit == <<"g", "i", "t">>

sGitForce == <<"g", "i", "t", ":", ":">>

Declined == [uri |-> <<>>, ok |-> FALSE, err |-> NoErr]

\* faulty variant: the username is not looked at
isGitUserAny(u) == TRUE

\* faulty variant: the URI is returned without the token
gitURIBare(u) == url_String(u)

\* faulty variant: the query of the address is lost
gitURINoQuery(u) == sGitForce \o url_String([u EXCEPT !.RawQuery = <<>>, !.ForceQuery = FALSE])

\* `u.User.Username() != "git"`: only the user git makes an SSH address a Git one
isGitUser(u) == u.Username = sGit

\* `"git::" + u.String()`
gitURI(u) == sGitForce \o url_String(u)

\* GitDetector.Detect(src, _)
GitDetector_Detect(src, pwd) ==
  LET ssh(r) ==
        IF r.err # NoErr THEN [uri |-> <<>>, ok |-> TRUE, err |-> r.err]
        ELSE IF ~r.matched THEN Declined
        ELSE IF ~isGitUser(r.u) THEN Declined
        ELSE [uri |-> gitURI(r.u), ok |-> TRUE, err |-> NoErr]
  IN IF Len(src) = 0 THEN Declined ELSE ssh(detectSSH(src))

localSourcePrefixes == {<<".", "/">>, <<".", ".", "/">>, <<".", "\\">>, <<".", ".", "\\">>}

localExactMatches == {<<".">>, <<".", ".">>}

\* faulty variant: every address that begins with a dot is taken as local
isLocalSourceAddrAnyDot(addr) == HasPrefix(addr, <<".">>)

isLocalSourceAddr(addr) ==
  addr \in localExactMatches \/ \E prefix \in localSourcePrefixes : HasPrefix(addr, prefix)

sFile == <<"f", "i", "l", "e", ":", "/", "/">>

\* the tail of detectGitForceFilepath: Clean, ToSlash, leading '/', file:// URI
fileURIOf(force, srcResolved) ==
  LET serialize(rooted, p) ==
        IF ~p.ok
        THEN [uri |-> <<>>, ok |-> FALSE, err |-> Err("error parsing force filepath", rooted)]
        ELSE [uri |-> force \o <<":", ":">> \o url_String(p.u), ok |-> TRUE, err |-> NoErr]
      root(rooted) == serialize(rooted, url_Parse(sFile \o rooted))
      slash(clean) == root(IF HasPrefix(clean, <<"/">>) THEN clean ELSE <<"/">> \o clean)
  IN slash(filepath_ToSlash(filepath_Clean(srcResolved)))

\* faulty variant: pwd is preferred to srcResolveFrom
resolveForcedPwdFirst(src, pwd, srcResolveFrom) ==
  IF filepath_IsAbs(src) THEN [path |-> src, err |-> NoErr]
  ELSE IF Len(pwd) > 0
       THEN IF ~filepath_IsAbs(pwd)
            THEN [path |-> <<>>, err |-> Err("pwd is not rooted", pwd)]
            ELSE [path |-> filepath_Join(pwd, src), err |-> NoErr]
  ELSE IF Len(srcResolveFrom) > 0
       THEN IF ~filepath_IsAbs(srcResolveFrom)
            THEN [path |-> <<>>, err |-> Err("srcResolveFrom is not rooted", srcResolveFrom)]
            ELSE [path |-> filepath_Join(srcResolveFrom, src), err |-> NoErr]
  ELSE [path |-> <<>>, err |-> Err("neither pwd nor srcResolveFrom param was provided", src)]

\* faulty variant: a srcResolveFrom that is not rooted is passed over for pwd
resolveForcedFallBack(src, pwd, srcResolveFrom) ==
  IF filepath_IsAbs(src) THEN [path |-> src, err |-> NoErr]
  ELSE IF Len(srcResolveFrom) > 0 /\ filepath_IsAbs(srcResolveFrom)
       THEN [path |-> filepath_Join(srcResolveFrom, src), err |-> NoErr]
  ELSE IF Len(pwd) > 0
       THEN IF ~filepath_IsAbs(pwd)
            THEN [path |-> <<>>, err |-> Err("pwd is not rooted", pwd)]
            ELSE [path |-> filepath_Join(pwd, src), err |-> NoErr]
  ELSE [path |-> <<>>, err |-> Err("neither pwd nor srcResolveFrom param was provided", src)]

\* faulty variant: without pwd and srcResolveFrom an implicit directory, the
\* root, is the base
resolveForcedImplicitDir(src, pwd, srcResolveFrom) ==
  IF filepath_IsAbs(src) THEN [path |-> src, err |-> NoErr]
  ELSE IF Len(srcResolveFrom) > 0
       THEN IF ~filepath_IsAbs(srcResolveFrom)
            THEN [path |-> <<>>, err |-> Err("srcResolveFrom is not rooted", srcResolveFrom)]
            ELSE [path |-> filepath_Join(srcResolveFrom, src), err |-> NoErr]
  ELSE IF Len(pwd) > 0
       THEN IF ~filepath_IsAbs(pwd)
            THEN [path |-> <<>>, err |-> Err("pwd is not rooted", pwd)]
            ELSE [path |-> filepath_Join(pwd, src), err |-> NoErr]
  ELSE [path |-> filepath_Join(<<"/">>, src), err |-> NoErr]

\* faulty variant: the base is examined before the address, so that a base
\* that is missing or not rooted is reported for a rooted address too
resolveForcedBaseFirst(src, pwd, srcResolveFrom) ==
  IF Len(srcResolveFrom) > 0
  THEN IF ~filepath_IsAbs(srcResolveFrom)
       THEN [path |-> <<>>, err |-> Err("srcResolveFrom is not rooted", srcResolveFrom)]
       ELSE [path |-> IF filepath_IsAbs(src) THEN src ELSE filepath_Join(srcResolveFrom, src),
             err |-> NoErr]
  ELSE IF Len(pwd) > 0
       THEN IF ~filepath_IsAbs(pwd)
            THEN [path |-> <<>>, err |-> Err("pwd is not rooted", pwd)]
            ELSE [path |-> IF filepath_IsAbs(src) THEN src ELSE filepath_Join(pwd, src),
                  err |-> NoErr]
  ELSE [path |-> <<>>, err |-> Err("neither pwd nor srcResolveFrom param was provided", src)]

\* the choice of srcResolved in detectGitForceFilepath: [path, err]
resolveForced(src, pwd, srcResolveFrom) ==
  IF filepath_IsAbs(src) THEN [path |-> src, err |-> NoErr]
  ELSE IF Len(srcResolveFrom) > 0
       THEN IF ~filepath_IsAbs(srcResolveFrom)
            THEN [path |-> <<>>, err |-> Err("srcResolveFrom is not rooted", srcResolveFrom)]
            ELSE [path |-> filepath_Join(srcResolveFrom, src), err |-> NoErr]
  ELSE IF Len(pwd) > 0
       THEN IF ~filepath_IsAbs(pwd)
            THEN [path |-> <<>>, err |-> Err("pwd is not rooted", pwd)]
            ELSE [path |-> filepath_Join(pwd, src), err |-> NoErr]
  ELSE [path |-> <<>>, err |-> Err("neither pwd nor srcResolveFrom param was provided", src)]

\* faulty variant: any token beginning with git is taken
detectGitForceFilepathPrefix(src, pwd, force, srcResolveFrom) ==
  LET resolved(r) ==
        IF r.err # NoErr THEN [uri |-> <<>>, ok |-> FALSE, err |-> r.err]
        ELSE fileURIOf(force, r.path)
  IN IF ~HasPrefix(force, sGit) THEN Declined
     ELSE IF Len(src) = 0 THEN Declined
     ELSE IF ~filepath_IsAbs(src) /\ ~isLocalSourceAddr(src) THEN Declined
     ELSE resolved(resolveForced(src, pwd, srcResolveFrom))

\* detectGitForceFilepath(src, pwd, force, srcResolveFrom)
detectGitForceFilepath(src, pwd, force, srcResolveFrom) ==
  LET resolved(r) ==
        IF r.err # NoErr THEN [uri |-> <<>>, ok |-> FALSE, err |-> r.err]
        ELSE fileURIOf(force, r.path)
  IN IF force # sGit THEN Declined
     ELSE IF Len(src) = 0 THEN Declined
     ELSE IF ~filepath_IsAbs(src) /\ ~isLocalSourceAddr(src) THEN Declined
     ELSE resolved(resolveForced(src, pwd, srcResolveFrom))

\* faulty variant: the subdir handed over for context is put into the result
GitCtxDetector_CtxDetectWithSubdir(src, pwd, forceToken, ctxSubDir, srcResolveFrom) ==
  LET mustField == (sGit = forceToken)
      withSubdir(uri) == IF ctxSubDir = <<>> THEN uri ELSE uri \o <<"/", "/">> \o ctxSubDir
      fail(kind) == [uri |-> <<>>, ok |-> FALSE, err |-> Err(kind, src)]
      ssh(r) ==
        IF r.err # NoErr THEN [uri |-> <<>>, ok |-> FALSE, err |-> r.err]
        ELSE IF ~r.matched
             THEN IF mustField THEN fail("ssh detection yielded nil URL") ELSE Declined
        ELSE IF ~isGitUser(r.u)
             THEN IF mustField THEN fail("ssh username is not 'git'") ELSE Declined
        ELSE [uri |-> withSubdir(gitURI(r.u)), ok |-> TRUE, err |-> NoErr]
      forced(f) ==
        IF Len(forceToken) > 0 /\ f.err # NoErr THEN [uri |-> <<>>, ok |-> FALSE, err |-> f.err]
        ELSE IF Len(forceToken) > 0 /\ f.ok
             THEN [uri |-> withSubdir(f.uri), ok |-> TRUE, err |-> NoErr]
        ELSE ssh(detectSSH(src))
  IN IF Len(src) = 0
     THEN IF mustField THEN fail("src string must be non-empty") ELSE Declined
     ELSE forced(detectGitForceFilepath(src, pwd, forceToken, srcResolveFrom))

\* faulty variant: best effort whatever the token, so that an address the
\* detector cannot read is declined
GitCtxDetector_CtxDetectBestEffort(src, pwd, forceToken, ctxSubDir, srcResolveFrom) ==
  LET ssh(r) ==
        IF r.err # NoErr THEN [uri |-> <<>>, ok |-> FALSE, err |-> r.err]
        ELSE IF ~r.matched THEN Declined
        ELSE IF ~isGitUser(r.u) THEN Declined
        ELSE [uri |-> gitURI(r.u), ok |-> TRUE, err |-> NoErr]
      forced(f) ==
        IF Len(forceToken) > 0 /\ f.err # NoErr THEN [uri |-> <<>>, ok |-> FALSE, err |-> f.err]
        ELSE IF Len(forceToken) > 0 /\ f.ok THEN [uri |-> f.uri, ok |-> TRUE, err |-> NoErr]
        ELSE ssh(detectSSH(src))
  IN IF Len(src) = 0 THEN Declined
     ELSE forced(detectGitForceFilepath(src, pwd, forceToken, srcResolveFrom))

\* GitCtxDetector.CtxDetect(src, pwd, forceToken, _, srcResolveFrom)
GitCtxDetector_CtxDetect(src, pwd, forceToken, ctxSubDir, srcResolveFrom) ==
  LET mustField == (sGit = forceToken)
      fail(kind) == [uri |-> <<>>, ok |-> FALSE, err |-> Err(kind, src)]
      ssh(r) ==
        IF r.err # NoErr THEN [uri |-> <<>>, ok |-> FALSE, err |-> r.err]
        ELSE IF ~r.matched
             THEN IF mustField THEN fail("ssh detection yielded nil URL") ELSE Declined
        ELSE IF ~isGitUser(r.u)
             THEN IF mustField THEN fail("ssh username is not 'git'") ELSE Declined
        ELSE [uri |-> gitURI(r.u), ok |-> TRUE, err |-> NoErr]
      forced(f) ==
        IF Len(forceToken) > 0 /\ f.err # NoErr THEN [uri |-> <<>>, ok |-> FALSE, err |-> f.err]
        ELSE IF Len(forceToken) > 0 /\ f.ok THEN [uri |-> f.uri, ok |-> TRUE, err |-> NoErr]
        ELSE ssh(detectSSH(src))
  IN IF Len(src) = 0
     THEN IF mustField THEN fail("src string must be non-empty") ELSE Declined
     ELSE forced(detectGitForceFilepath(src, pwd, forceToken, srcResolveFrom))

\* FileDetector.Detect(src, pwd), the detector FileCtxDetector wraps: a rooted
\* path as it is, a relative one joined to pwd, as a file:// URI (without the
\* look at symbolic links of pwd)
FileDetector_Detect(src, pwd) ==
  IF Len(src) = 0 THEN Declined
  ELSE IF filepath_IsAbs(src) THEN [uri |-> sFile \o src, ok |-> TRUE, err |-> NoErr]
  ELSE IF Len(pwd) = 0
       THEN [uri |-> <<>>, ok |-> TRUE,
             err |-> Err("relative paths require a module with a pwd", src)]
  ELSE [uri |-> sFile \o filepath_Join(pwd, src), ok |-> TRUE, err |-> NoErr]

\* FileCtxDetector.CtxDetect(src, pwd, _, _, _)
FileCtxDetector_CtxDetect(src, pwd, forceToken, ctxSubDir, srcResolveFrom) ==
  FileDetector_Detect(src, pwd)

\* ------------------------------------------------------------------------
\* Reassembly of a matched result
\* ------------------------------------------------------------------------
\* faulty variant: the subdir asked for goes in front of the detector's
mergeSubdirCallerFirst(detectSubdir, subDir) ==
  IF detectSubdir # <<>>
  THEN IF subDir # <<>> THEN filepath_Join(subDir, detectSubdir) ELSE detectSubdir
  ELSE subDir

\* the detector's subdir goes in front of the one asked for
mergeSubdir(detectSubdir, subDir) ==
  IF detectSubdir # <<>>
  THEN IF subDir # <<>> THEN filepath_Join(detectSubdir, subDir) ELSE detectSubdir
  ELSE subDir

\* faulty variant: the subdir is appended as an ordinary path segment
embedSubdirSingleSlash(result, subDir) ==
  LET embed(p) ==
        IF ~p.ok THEN [result |-> <<>>, err |-> Err("Error parsing URL", result)]
        ELSE [result |-> url_String([p.u EXCEPT !.Path = @ \o <<"/">> \o subDir,
                                                !.RawPath = p.u.Path \o <<"/">> \o subDir]),
              err |-> NoErr]
  IN IF subDir # <<>> THEN embed(url_Parse(result)) ELSE [result |-> result, err |-> NoErr]

\* u.Path += "//" + subDir; u.RawPath = u.Path; result = u.String()
embedSubdir(result, subDir) ==
  LET embed(p) ==
        IF ~p.ok THEN [result |-> <<>>, err |-> Err("Error parsing URL", result)]
        ELSE [result |-> url_String([p.u EXCEPT !.Path = @ \o <<"/", "/">> \o subDir,
                                                !.RawPath = p.u.Path \o <<"/", "/">> \o subDir]),
              err |-> NoErr]
  IN IF subDir # <<>> THEN embed(url_Parse(result)) ELSE [result |-> result, err |-> NoErr]

\* faulty variant: the detector's token first, then the caller's
preserveForceDetectorFirst(srcGetForce, detectForce, result) ==
  IF detectForce # <<>> THEN detectForce \o <<":", ":">> \o result
  ELSE IF srcGetForce # <<>> THEN srcGetForce \o <<":", ":">> \o result
  ELSE result

\* the caller's token first, then the detector's
preserveForce(srcGetForce, detectForce, result) ==
  IF srcGetForce # <<>> THEN srcGetForce \o <<":", ":">> \o result
  ELSE IF detectForce # <<>> THEN detectForce \o <<":", ":">> \o result
  ELSE result

\* faulty variant: the token of the detector's result is not split off
handleDetectedKeepToken(detectedResult, srcGetForce, subDir) ==
  LET finish(e) ==
        IF e.err # NoErr THEN [result |-> <<>>, err |-> e.err]
        ELSE [result |-> preserveForce(srcGetForce, <<>>, e.result), err |-> NoErr]
      split(d) == finish(embedSubdir(d.src, mergeSubdir(d.subdir, subDir)))
  IN split(SourceDirSubdir(detectedResult))

\* handleDetected(detectedResult, srcGetForce, subDir): [result, err]
handleDetected(detectedResult, srcGetForce, subDir) ==
  LET finish(detectForce, e) ==
        IF e.err # NoErr THEN [result |-> <<>>, err |-> e.err]
        ELSE [result |-> preserveForce(srcGetForce, detectForce, e.result), err |-> NoErr]
      split(detectForce, d) ==
        finish(detectForce, embedSubdir(d.src, mergeSubdir(d.subdir, subDir)))
      forced(g) == split(g.force, SourceDirSubdir(g.src))
  IN forced(getForcedGetter(detectedResult))

\* the resolver Detect calls with three arguments (src, pwd, force): pwd is
\* ignored and a relative path is made absolute against the working
\* directory of the process (filepath.Abs)
isLocalSourceAddrLegacy(addr) ==
  \E prefix \in localSourcePrefixes : HasPrefix(addr, prefix)

detectGitForceFilepathLegacy(src, pwd, force, procDir) ==
  LET file(srcAbs) ==
        [uri |-> force \o <<":", ":">> \o sFile
                 \o (IF HasPrefix(srcAbs, <<"/">>) THEN srcAbs ELSE <<"/">> \o srcAbs),
         ok |-> TRUE, err |-> NoErr]
  IN IF force # sGit THEN Declined
     ELSE IF Len(src) = 0 THEN Declined
     ELSE IF filepath_IsAbs(src) THEN file(src)
     ELSE IF ~isLocalSourceAddrLegacy(src) THEN Declined
     ELSE file(filepath_Join(procDir, src))

\* ------------------------------------------------------------------------
\* Detector chains
\* ------------------------------------------------------------------------
\* Members of a chain: the Git detector and three stand-ins for the other
\* implementations of the interface: one that always declines, one that
\* always fails, and one that claims every non-empty address, answering a
\* plain URI for an address that starts with a letter 'a' and otherwise a
\* URI that carries a forced token and a subdir of its own.
DetectorKinds == {"Git", "Decline", "Fail", "Hg"}

sHgResult == <<"h", "g", ":", ":", "h", "t", "t", "p", ":", "/", "/", "r", "/", "x", "/", "/", "d">>

sPlainResult == <<"h", "t", "t", "p", ":", "/", "/", "r", "/", "a">>

StubDetect(kind, src) ==
  IF kind = "Fail" THEN [uri |-> <<>>, ok |-> FALSE, err |-> Err("detector failed", src)]
  ELSE IF kind = "Hg" /\ Len(src) > 0
       THEN [uri |-> IF src[1] = "a" THEN sPlainResult ELSE sHgResult,
             ok |-> TRUE, err |-> NoErr]
  ELSE Declined

\* d.Detect(getSrc, pwd) for the detector d of the given kind
Detector_Detect(kind, src, pwd_) ==
  IF kind = "Git" THEN GitDetector_Detect(src, pwd_) ELSE StubDetect(kind, src)

\* d.CtxDetect(getSrc, pwd, getForce, subDir, srcResolveFrom)
CtxDetector_CtxDetect(kind, src, pwd_, force, ctxSubDir, from) ==
  IF kind = "Git" THEN GitCtxDetector_CtxDetect(src, pwd_, force, ctxSubDir, from)
  ELSE StubDetect(kind, src)

RECURSIVE SeqsUpTo(_, _)
SeqsUpTo(S, n) ==
  IF n = 0 THEN {<<>>}
  ELSE LET shorter == SeqsUpTo(S, n - 1)
       IN shorter \cup {Append(q, x) : q \in shorter, x \in S}

Chains == SeqsUpTo(DetectorKinds, MaxChain)

\* ------------------------------------------------------------------------
\* Inputs
\* ------------------------------------------------------------------------
Forces == {<<>>, sGitForce, <<"h", "g", ":", ":">>}

\* SCP-like addresses user@host:path[?query], by their parts
ScpUsers == {sGit, <<"u">>, <<".", "/", "u">>}

ScpHosts == {<<"h">>}

ScpPaths == {<<"p">>, <<"/", "p">>, <<"p", "/", "x">>}

Scp(user, host, path, query) == user \o <<"@">> \o host \o <<":">> \o path \o query

ScpBodies == {Scp(u, h, p, <<>>) : u \in {sGit, <<"u">>}, h \in ScpHosts,
                                   p \in {<<"p">>, <<"/", "p">>}}

OtherBodies ==
  { <<"s", "s", "h", ":", "/", "/", "g", "i", "t", "@", "h", ":", "2", "2", "/", "p">>,
    <<"s", "s", "h", ":", "/", "/", "g", "i", "t", "@", "h", ":", "p", "/", "x">>,
    <<"h", ":", "p">>,
    <<".", "/", "a">>,
    <<".", ".", "/", "a">>,
    <<"/", "a">>,
    <<"a">>,
    <<"a", "/", "b">>,
    <<".">>,
    <<>> }

Bodies == ScpBodies \cup OtherBodies

SubSegNames == <<"s", "t", "s", "t">>

SubdirOf(n) == JoinSlash([i \in 1..n |-> <<SubSegNames[i]>>])

Subdirs == {<<>>} \cup {<<"/", "/">> \o SubdirOf(n) : n \in 1..MaxSubSegs}

Queries == {<<>>, <<"?", "r", "=", "1">>}

Srcs == {f \o b \o sd \o q : f \in Forces, b \in Bodies, sd \in Subdirs, q \in Queries}

Dirs == {<<>>, <<"/", "w">>, <<"w">>}

ProcDirs == {<<"/", "c">>}

\* ------------------------------------------------------------------------
\* State: one call of Detect or CtxDetect, step by step
\* ------------------------------------------------------------------------
VARIABLES
  variant,         \* "Detect" or "CtxDetect"
  src,             \* the address given
  pwd,             \* the working directory given
  srcResolveFrom,  \* the alternate base given (CtxDetect)
  ds,              \* the chain given
  cwd,             \* the working directory of the process
  pc,              \* "start", "force", "loop", "done"
  getForce,        \* forced token split off src
  getSrc,          \* body handed to the detectors
  subDir,          \* subdir split off src
  idx,             \* next chain index of the loop
  calls,           \* detector invocations so far, in order
  resolverTried,   \* the forced filepath resolver was called by Detect
  ret,             \* returned string
  err,             \* returned error
  round,           \* 0: the call on the input, 1: the call on its own output
  firstOut,        \* output of round 0, once round 1 started
  out,             \* what the last detector or resolver called returned
  gs               \* the local variables of each call in flight at the same time

vars == <<variant, src, pwd, srcResolveFrom, ds, cwd, pc, getForce, getSrc, subDir,
          idx, calls, resolverTried, ret, err, round, firstOut, out, gs>>

inputs == <<variant, src, pwd, srcResolveFrom, ds, cwd, round, firstOut, gs>>

Init ==
  /\ variant \in {"Detect", "CtxDetect"}
  /\ src \in Srcs
  /\ pwd \in Dirs
  /\ srcResolveFrom \in (IF variant = "CtxDetect" THEN Dirs ELSE {<<>>})
  /\ ds \in Chains
  /\ cwd \in ProcDirs
  /\ pc = "start"
  /\ getForce = <<>>
  /\ getSrc = <<>>
  /\ subDir = <<>>
  /\ idx = 1
  /\ calls = <<>>
  /\ resolverTried = FALSE
  /\ ret = <<>>
  /\ err = NoErr
  /\ round = 0
  /\ firstOut = <<>>
  /\ out = Declined
  /\ gs = <<>>

\* faulty variant: a URI counts as valid only when it names a host
ValidURLHostOnly(body) ==
  LET valid(p) == p.ok /\ p.u.Scheme # <<>> /\ p.u.Host # <<>>
  IN valid(url_Parse(body))

\* the body is a URI with a scheme: `err == nil && u.Scheme != ""`
ValidURL(body) ==
  LET valid(p) == p.ok /\ p.u.Scheme # <<>>
  IN valid(url_Parse(body))

Return(result, error) ==
  /\ ret' = result
  /\ err' = error
  /\ pc' = "done"

\* Detect and CtxDetect, up to the return of an already valid URL
Start ==
  /\ pc = "start"
  /\ LET parsed(force, d) ==
           /\ getForce' = force
           /\ getSrc' = d.src
           /\ subDir' = d.subdir
           /\ IF ValidURL(d.src) THEN Return(src, NoErr)
              ELSE /\ pc' = IF variant = "Detect" THEN "force" ELSE "loop"
                   /\ UNCHANGED <<ret, err>>
         forced(g) == parsed(g.force, SourceDirSubdir(g.src))
     IN forced(getForcedGetter(src))
  /\ UNCHANGED <<inputs, idx, calls, resolverTried, out>>

\* faulty variant: the match of the resolver is returned without the subdir
DetectForceFilepathNoSubdir ==
  /\ pc = "force"
  /\ variant = "Detect"
  /\ IF getForce = sGit
     THEN LET handled(h) ==
                IF h.err # NoErr THEN Return(<<>>, h.err) ELSE Return(h.result, NoErr)
              resolved(r) ==
                /\ resolverTried' = TRUE
                /\ out' = r
                /\ IF r.err # NoErr THEN Return(<<>>, r.err)
                   ELSE IF r.ok THEN handled(handleDetected(r.uri, getForce, <<>>))
                   ELSE /\ pc' = "loop"
                        /\ UNCHANGED <<ret, err>>
          IN resolved(detectGitForceFilepathLegacy(getSrc, pwd, getForce, cwd))
     ELSE /\ pc' = "loop"
          /\ UNCHANGED <<ret, err, resolverTried, out>>
  /\ UNCHANGED <<inputs, getForce, getSrc, subDir, idx, calls>>

\* faulty variant: Detect goes to the chain without trying the resolver
DetectForceFilepathSkipped ==
  /\ pc = "force"
  /\ variant = "Detect"
  /\ pc' = "loop"
  /\ UNCHANGED <<ret, err, resolverTried, out>>
  /\ UNCHANGED <<inputs, getForce, getSrc, subDir, idx, calls>>

\* Detect: the special case of the 'git::' token on a filepath
DetectForceFilepath ==
  /\ pc = "force"
  /\ variant = "Detect"
  /\ IF getForce = sGit
     THEN LET handled(h) ==
                IF h.err # NoErr THEN Return(<<>>, h.err) ELSE Return(h.result, NoErr)
              resolved(r) ==
                /\ resolverTried' = TRUE
                /\ out' = r
                /\ IF r.err # NoErr THEN Return(<<>>, r.err)
                   ELSE IF r.ok THEN handled(handleDetected(r.uri, getForce, subDir))
                   ELSE /\ pc' = "loop"
                        /\ UNCHANGED <<ret, err>>
          IN resolved(detectGitForceFilepathLegacy(getSrc, pwd, getForce, cwd))
     ELSE /\ pc' = "loop"
          /\ UNCHANGED <<ret, err, resolverTried, out>>
  /\ UNCHANGED <<inputs, getForce, getSrc, subDir, idx, calls>>

\* faulty variant: the `continue` of a detector that declined is missing
IterateNoContinue(r) ==
  /\ calls' = Append(calls, [index |-> idx, src |-> getSrc, pwd |-> pwd,
                             force |-> IF variant = "Detect" THEN <<>> ELSE getForce,
                             subdir |-> IF variant = "Detect" THEN <<>> ELSE subDir,
                             from |-> srcResolveFrom,
                             ok |-> r.ok, failed |-> r.err # NoErr])
  /\ out' = r
  /\ LET handled(h) ==
           IF h.err # NoErr THEN Return(<<>>, h.err) ELSE Return(h.result, NoErr)
     IN IF r.err # NoErr THEN Return(<<>>, r.err) /\ UNCHANGED idx
        ELSE handled(handleDetected(r.uri, getForce, subDir)) /\ UNCHANGED idx
  /\ UNCHANGED <<inputs, getForce, getSrc, subDir, resolverTried>>

\* faulty variant: a detector's error is taken as a decline
IterateIgnoreErr(r) ==
  /\ calls' = Append(calls, [index |-> idx, src |-> getSrc, pwd |-> pwd,
                             force |-> IF variant = "Detect" THEN <<>> ELSE getForce,
                             subdir |-> IF variant = "Detect" THEN <<>> ELSE subDir,
                             from |-> srcResolveFrom,
                             ok |-> r.ok, failed |-> r.err # NoErr])
  /\ out' = r
  /\ LET handled(h) ==
           IF h.err # NoErr THEN Return(<<>>, h.err) ELSE Return(h.result, NoErr)
     IN IF r.err # NoErr \/ ~r.ok THEN idx' = idx + 1 /\ UNCHANGED <<pc, ret, err>>
        ELSE handled(handleDetected(r.uri, getForce, subDir)) /\ UNCHANGED idx
  /\ UNCHANGED <<inputs, getForce, getSrc, subDir, resolverTried>>

\* faulty variant: a detector that declined is tried a second time before the
\* loop moves on
IterateRetryOnce(r) ==
  /\ calls' = Append(calls, [index |-> idx, src |-> getSrc, pwd |-> pwd,
                             force |-> IF variant = "Detect" THEN <<>> ELSE getForce,
                             subdir |-> IF variant = "Detect" THEN <<>> ELSE subDir,
                             from |-> srcResolveFrom,
                             ok |-> r.ok, failed |-> r.err # NoErr])
  /\ out' = r
  /\ LET handled(h) ==
           IF h.err # NoErr THEN Return(<<>>, h.err) ELSE Return(h.result, NoErr)
         retried == calls # <<>> /\ calls[Len(calls)].index = idx
     IN IF r.err # NoErr THEN Return(<<>>, r.err) /\ UNCHANGED idx
        ELSE IF ~r.ok THEN idx' = (IF retried THEN idx + 1 ELSE idx) /\ UNCHANGED <<pc, ret, err>>
        ELSE handled(handleDetected(r.uri, getForce, subDir)) /\ UNCHANGED idx
  /\ UNCHANGED <<inputs, getForce, getSrc, subDir, resolverTried>>

\* one iteration of `for _, d := range ds`
Iterate(r) ==
  /\ calls' = Append(calls, [index |-> idx, src |-> getSrc, pwd |-> pwd,
                             force |-> IF variant = "Detect" THEN <<>> ELSE getForce,
                             subdir |-> IF variant = "Detect" THEN <<>> ELSE subDir,
                             from |-> srcResolveFrom,
                             ok |-> r.ok, failed |-> r.err # NoErr])
  /\ out' = r
  /\ LET handled(h) ==
           IF h.err # NoErr THEN Return(<<>>, h.err) ELSE Return(h.result, NoErr)
     IN IF r.err # NoErr THEN Return(<<>>, r.err) /\ UNCHANGED idx
        ELSE IF ~r.ok THEN idx' = idx + 1 /\ UNCHANGED <<pc, ret, err>>
        ELSE handled(handleDetected(r.uri, getForce, subDir)) /\ UNCHANGED idx
  /\ UNCHANGED <<inputs, getForce, getSrc, subDir, resolverTried>>

DetectLoop ==
  /\ pc = "loop"
  /\ variant = "Detect"
  /\ idx <= Len(ds)
  /\ Iterate(Detector_Detect(ds[idx], getSrc, pwd))

CtxDetectLoop ==
  /\ pc = "loop"
  /\ variant = "CtxDetect"
  /\ idx <= Len(ds)
  /\ Iterate(CtxDetector_CtxDetect(ds[idx], getSrc, pwd, getForce, subDir, srcResolveFrom))

\* faulty variant: the error echoes the body instead of the address given
ExhaustedEchoBody ==
  /\ pc = "loop"
  /\ idx > Len(ds)
  /\ Return(<<>>, Err("invalid source string", getSrc))
  /\ UNCHANGED <<inputs, getForce, getSrc, subDir, idx, calls, resolverTried, out>>

\* the chain is exhausted: fmt.Errorf("invalid source string: %s", src)
Exhausted ==
  /\ pc = "loop"
  /\ idx > Len(ds)
  /\ Return(<<>>, Err("invalid source string", src))
  /\ UNCHANGED <<inputs, getForce, getSrc, subDir, idx, calls, resolverTried, out>>

\* the caller applies the same operation to the output of a successful call
Reapply ==
  /\ pc = "done"
  /\ err = NoErr
  /\ round = 0
  /\ src' = ret
  /\ firstOut' = ret
  /\ round' = 1
  /\ pc' = "start"
  /\ getForce' = <<>>
  /\ getSrc' = <<>>
  /\ subDir' = <<>>
  /\ idx' = 1
  /\ calls' = <<>>
  /\ resolverTried' = FALSE
  /\ ret' = <<>>
  /\ out' = Declined
  /\ UNCHANGED <<variant, pwd, srcResolveFrom, ds, cwd, err, gs>>

Next ==
  \/ Start
  \/ DetectForceFilepath
  \/ DetectLoop
  \/ CtxDetectLoop
  \/ Exhausted
  \/ Reapply

Spec == Init /\ [][Next]_vars

\* one call of Detect or CtxDetect from entry to return, the caller not
\* applying it again to its output
NextOnce ==
  \/ Start
  \/ DetectForceFilepath
  \/ DetectLoop
  \/ CtxDetectLoop
  \/ Exhausted

SpecOnce == Init /\ [][NextOnce]_vars

\* ------------------------------------------------------------------------
\* Direct calls of the detectors and of the resolver
\* ------------------------------------------------------------------------
\* variant names the function called; src, pwd, getForce, subDir and
\* srcResolveFrom hold its arguments and out what it returned.
GitFns == {"GitDetector.Detect", "GitCtxDetector.CtxDetect", "detectGitForceFilepath"}

\* the implementations of CtxDetector.CtxDetect
CtxFns == {"GitCtxDetector.CtxDetect", "FileCtxDetector.CtxDetect"}

FnNames == GitFns \cup CtxFns \cup {"handleDetected"}

\* results of detectors, as handed to handleDetected: with and without
\* token, subdir and query
FnResults ==
  { sHgResult,
    sPlainResult,
    sGitForce \o <<"s", "s", "h", ":", "/", "/", "g", "i", "t", "@", "h", "/", "p", "?", "r", "=", "1">>,
    <<"h", "t", "t", "p", ":", "/", "/", "r", "/", "x", "/", "/", "d", "/", "e", "?", "r", "=", "1">> }

\* more filepaths, two of them with a doubled separator inside (as a direct
\* caller may pass them), and a query whose value holds a double slash
FnPaths ==
  { <<".", ".">>,
    <<".", "\\", "a">>,
    <<".", ".", "\\", "a">>,
    <<".", "a">>,
    <<"/", "a", "/", ".", ".">>,
    <<"/", "a", "/", ".", "/", "b">>,
    <<".", "/", "a", "/", ".", ".", "/", "b">>,
    <<"/", "a", "/", "/", "b">>,
    <<".", "/", "a", "/", "/", "b">> }

FnQueries == Queries \cup {<<"?", "r", "=", "x", "/", "/", "y">>}

FnSrcs == {Scp(u, h, p, q) : u \in ScpUsers, h \in ScpHosts, p \in ScpPaths, q \in Queries}
          \cup {b \o q : b \in OtherBodies \cup FnPaths, q \in FnQueries}

FnForces == {<<>>, sGit, <<"g", "i", "t", ":">>, sGitForce, <<"h", "g">>}

\* directories for pwd and srcResolveFrom: two rooted ones, to tell them apart
FnDirs == Dirs \cup {<<"/", "v">>}

\* subdirs asked for by the caller: clean ones, one that climbs and one with
\* a doubled separator
FnSubdirs == {SubdirOf(n) : n \in 0..MaxSubSegs}
             \cup {<<".", ".", "/", "t">>, <<"s", "/", "/", "t">>}

InitFn ==
  /\ variant \in FnNames
  /\ src \in (IF variant = "handleDetected" THEN FnResults ELSE FnSrcs)
  /\ pwd \in FnDirs
  /\ getForce \in FnForces
  /\ subDir \in FnSubdirs
  /\ srcResolveFrom \in FnDirs
  /\ ds = <<>>
  /\ cwd \in ProcDirs
  /\ pc = "call"
  /\ getSrc = <<>>
  /\ idx = 1
  /\ calls = <<>>
  /\ resolverTried = FALSE
  /\ ret = <<>>
  /\ err = NoErr
  /\ round = 0
  /\ firstOut = <<>>
  /\ out = Declined
  /\ gs = <<>>

Called(r) ==
  /\ pc = "call"
  /\ pc' = "called"
  /\ out' = r
  /\ UNCHANGED <<variant, src, pwd, srcResolveFrom, ds, cwd, getForce, getSrc, subDir,
                 idx, calls, resolverTried, ret, err, round, firstOut, gs>>

CallGitDetect ==
  /\ variant = "GitDetector.Detect"
  /\ Called(GitDetector_Detect(src, pwd))

CallGitCtxDetect ==
  /\ variant = "GitCtxDetector.CtxDetect"
  /\ Called(GitCtxDetector_CtxDetect(src, pwd, getForce, subDir, srcResolveFrom))

CallForceFilepath ==
  /\ variant = "detectGitForceFilepath"
  /\ Called(detectGitForceFilepath(src, pwd, getForce, srcResolveFrom))

CallFileCtxDetect ==
  /\ variant = "FileCtxDetector.CtxDetect"
  /\ Called(FileCtxDetector_CtxDetect(src, pwd, getForce, subDir, srcResolveFrom))

\* handleDetected(detectedResult, srcGetForce, subDir), its arguments held by
\* src, getForce and subDir
CallHandleDetected ==
  /\ variant = "handleDetected"
  /\ LET returned(h) == Called([uri |-> h.result, ok |-> h.err = NoErr, err |-> h.err])
     IN returned(handleDetected(src, getForce, subDir))

NextFn ==
  \/ CallGitDetect
  \/ CallGitCtxDetect
  \/ CallForceFilepath
  \/ CallFileCtxDetect
  \/ CallHandleDetected

SpecFn == InitFn /\ [][NextFn]_vars

\* ------------------------------------------------------------------------
\* Calls of Detect and CtxDetect in flight at the same time
\* ------------------------------------------------------------------------
\* Two goroutines call Detect or CtxDetect with the same chain (the slice ds
\* shares its elements between the callers, like the package variables
\* Detectors and ContextualDetectors). gs[g] holds the parameters and the
\* local variables of the call of goroutine g; every step of a call is one
\* action, and the steps of the two calls interleave in any order.
Goroutines == {"g1", "g2"}

ParSrcs ==
  { sGitForce \o <<".", "/", "a", "/", "/", "s">>,
    <<"g", "i", "t", "@", "h", ":", "p", "?", "r", "=", "1">>,
    sGitForce \o <<"u", "@", "h", ":", "p">>,
    <<"u", "@", "h", ":", "p", "/", "/", "s">>,
    <<"a">>,
    <<"s", "s", "h", ":", "/", "/", "g", "i", "t", "@", "h", ":", "2", "2", "/", "p">> }

ParDirs == {<<"/", "w">>}

\* the call as it is entered: parameters set, locals at their zero values
NewCall(v, s, p, from, chain) ==
  [variant |-> v, src |-> s, pwd |-> p, srcResolveFrom |-> from, given |-> chain,
   pc |-> "start", getForce |-> <<>>, getSrc |-> <<>>, subDir |-> <<>>, idx |-> 1,
   ret |-> <<>>, err |-> NoErr]

InitPar ==
  /\ ds \in Chains
  /\ cwd \in ProcDirs
  /\ gs \in {[g \in Goroutines |-> NewCall(v[g], s[g], p, <<>>, ds)] :
               v \in [Goroutines -> {"Detect", "CtxDetect"}],
               s \in [Goroutines -> ParSrcs],
               p \in ParDirs}
  /\ variant = "parallel"
  /\ src = <<>>
  /\ pwd = <<>>
  /\ srcResolveFrom = <<>>
  /\ pc = "parallel"
  /\ getForce = <<>>
  /\ getSrc = <<>>
  /\ subDir = <<>>
  /\ idx = 1
  /\ calls = <<>>
  /\ resolverTried = FALSE
  /\ ret = <<>>
  /\ err = NoErr
  /\ round = 0
  /\ firstOut = <<>>
  /\ out = Declined

\* `return result, error`
Returned(c, result, error) == [c EXCEPT !.ret = result, !.err = error, !.pc = "done"]

\* getForcedGetter, SourceDirSubdir, and the return of an already valid URL
callStart(c) ==
  LET split(force, d) ==
        [c EXCEPT !.getForce = force, !.getSrc = d.src, !.subDir = d.subdir,
                  !.pc = IF c.variant = "Detect" THEN "force" ELSE "loop"]
      parsed(force, d) ==
        IF ValidURL(d.src) THEN Returned(split(force, d), c.src, NoErr)
        ELSE split(force, d)
      forced(g) == parsed(g.force, SourceDirSubdir(g.src))
  IN forced(getForcedGetter(c.src))

\* `result, err = handleDetected(result, getForce, subDir)` and the return
callHandled(c, uri) ==
  LET handled(h) ==
        IF h.err # NoErr THEN Returned(c, <<>>, h.err) ELSE Returned(c, h.result, NoErr)
  IN handled(handleDetected(uri, c.getForce, c.subDir))

\* Detect: the special case of the 'git::' token on a filepath
callForce(c, procDir) ==
  LET resolved(r) ==
        IF r.err # NoErr THEN Returned(c, <<>>, r.err)
        ELSE IF r.ok THEN callHandled(c, r.uri)
        ELSE [c EXCEPT !.pc = "loop"]
  IN IF c.getForce = sGit
     THEN resolved(detectGitForceFilepathLegacy(c.getSrc, c.pwd, c.getForce, procDir))
     ELSE [c EXCEPT !.pc = "loop"]

\* one iteration of `for _, d := range ds` on the detector d
callIterate(c, d) ==
  LET outcome(r) ==
        IF r.err # NoErr THEN Returned(c, <<>>, r.err)
        ELSE IF ~r.ok THEN [c EXCEPT !.idx = @ + 1]
        ELSE callHandled(c, r.uri)
  IN outcome(IF c.variant = "Detect"
             THEN Detector_Detect(d, c.getSrc, c.pwd)
             ELSE CtxDetector_CtxDetect(d, c.getSrc, c.pwd, c.getForce, c.subDir,
                                        c.srcResolveFrom))

\* fmt.Errorf("invalid source string: %s", src)
callExhausted(c) == Returned(c, <<>>, Err("invalid source string", c.src))

sequential == <<variant, src, pwd, srcResolveFrom, cwd, pc, getForce, getSrc, subDir,
                calls, resolverTried, ret, err, round, firstOut, out>>

GoStart(g) ==
  /\ gs[g].pc = "start"
  /\ gs' = [gs EXCEPT ![g] = callStart(gs[g])]
  /\ UNCHANGED <<sequential, ds, idx>>

GoForce(g) ==
  /\ gs[g].pc = "force"
  /\ gs' = [gs EXCEPT ![g] = callForce(gs[g], cwd)]
  /\ UNCHANGED <<sequential, ds, idx>>

\* faulty variant: the position in the chain is kept in a variable that the
\* calls share
GoLoopSharedIndex(g) ==
  /\ gs[g].pc = "loop"
  /\ idx <= Len(ds)
  /\ LET iterated(c) ==
           /\ gs' = [gs EXCEPT ![g] = [c EXCEPT !.idx = gs[g].idx]]
           /\ idx' = IF c.pc = "loop" THEN idx + 1 ELSE idx
     IN iterated(callIterate(gs[g], ds[idx]))
  /\ UNCHANGED <<sequential, ds>>

\* the loop reads the element of the chain at the call's own index
GoLoop(g) ==
  /\ gs[g].pc = "loop"
  /\ gs[g].idx <= Len(ds)
  /\ gs' = [gs EXCEPT ![g] = callIterate(gs[g], ds[gs[g].idx])]
  /\ UNCHANGED <<sequential, ds, idx>>

GoExhausted(g) ==
  /\ gs[g].pc = "loop"
  /\ gs[g].idx > Len(ds)
  /\ gs' = [gs EXCEPT ![g] = callExhausted(gs[g])]
  /\ UNCHANGED <<sequential, ds, idx>>

NextPar ==
  \E g \in Goroutines :
    \/ GoStart(g)
    \/ GoForce(g)
    \/ GoLoop(g)
    \/ GoExhausted(g)

SpecPar == InitPar /\ [][NextPar]_vars

\* ------------------------------------------------------------------------
\* Properties of Detect and CtxDetect (Spec)
\* ------------------------------------------------------------------------
\* the outcome of the i-th detector of the chain on the body of this call
DetOutcome(i) ==
  IF variant = "Detect" THEN Detector_Detect(ds[i], getSrc, pwd)
  ELSE CtxDetector_CtxDetect(ds[i], getSrc, pwd, getForce, subDir, srcResolveFrom)

\* the body of this call parses as a URI with a non-empty scheme
BodyHasScheme == url_Parse(getSrc).ok /\ url_Parse(getSrc).u.Scheme # <<>>

\* C1: when the body left after the forced token and the //subdir are split
\* off parses as a URI with a non-empty scheme, the call returns the address
\* it was given, unchanged and without error, and neither a detector nor the
\* forced filepath resolver has been invoked.
C1_ValidURLReturnedUnchanged ==
  (pc = "done" /\ BodyHasScheme) =>
     /\ ret = src
     /\ err = NoErr
     /\ calls = <<>>
     /\ ~resolverTried
     /\ out = Declined

\* C1 happens: a first call on an address with token, subdir and query whose
\* body has a scheme, given a chain that is not empty
C1_Witness ==
  /\ pc = "done" /\ round = 0
  /\ BodyHasScheme
  /\ getForce = sGit /\ subDir # <<>> /\ Contains(src, <<"?">>)
  /\ ds # <<>>
  /\ ret = src

\* C2: applying the operation to the output of a successful call succeeds
\* and returns that output again.
C2_Idempotent ==
  (pc = "done" /\ round = 1) => (err = NoErr /\ ret = firstOut)

\* C2 happens: the second call has returned, and the first one had rewritten
\* an SCP-style address with subdir and query through a detector
C2_Witness ==
  /\ pc = "done" /\ round = 1
  /\ ret = sGitForce \o <<"s","s","h",":","/","/","g","i","t","@","h","/","p","/","/">>
             \o SubdirOf(1) \o <<"?","r","=","1">>
  /\ ret = firstOut

\* C3: when a call succeeds through the chain, the detectors were tried in
\* chain order, every detector before the matching one was invoked and
\* declined, the matching one is the earliest that matches, none after it
\* was invoked, and the result is built from its output.
C3_FirstMatchWins ==
  (pc = "done" /\ err = NoErr /\ calls # <<>>) =>
     /\ Len(calls) <= Len(ds)
     /\ \A i \in 1..Len(calls) : calls[i].index = i /\ calls[i].src = getSrc
     /\ \A i \in 1..(Len(calls) - 1) :
          ~calls[i].ok /\ ~calls[i].failed /\ DetOutcome(i) = Declined
     /\ calls[Len(calls)].ok
     /\ DetOutcome(Len(calls)).ok
     /\ out = DetOutcome(Len(calls))
     /\ ret = handleDetected(out.uri, getForce, subDir).result

\* C3 happens: a chain whose first detector declines and whose second and
\* last is the Git detector, which matches
C3_Witness ==
  /\ pc = "done" /\ err = NoErr /\ round = 0
  /\ Len(ds) = 2 /\ ds[1] = "Decline" /\ ds[2] = "Git"
  /\ Len(calls) = 2 /\ calls[2].ok
  /\ ret # <<>>

\* C4: an error of a detector ends the call at once: the result is the empty
\* string with that detector's error, no later detector is invoked, and only
\* a detector that declined without error is ever followed by another.
C4_DetectorErrorAborts ==
  /\ \A i \in 1..(Len(calls) - 1) : ~calls[i].ok /\ ~calls[i].failed
  /\ (calls # <<>> /\ calls[Len(calls)].failed) =>
        /\ pc = "done"
        /\ ret = <<>>
        /\ err # NoErr
        /\ err = DetOutcome(Len(calls)).err
        /\ calls[Len(calls)].index = Len(calls)

\* C4 happens: the first of two detectors fails, the second would match
C4_Witness ==
  /\ pc = "done" /\ Len(ds) = 2 /\ ds[1] = "Fail" /\ ds[2] = "Hg"
  /\ Len(calls) = 1 /\ calls[1].failed
  /\ DetOutcome(2).ok
  /\ ret = <<>> /\ err # NoErr

\* the forced filepath resolver of Detect matches or fails on this call
ResolverSettles ==
  /\ variant = "Detect"
  /\ getForce = sGit
  /\ detectGitForceFilepathLegacy(getSrc, pwd, getForce, cwd) # Declined

\* every detector of the chain declines the body without error
AllDecline == \A i \in 1..Len(ds) : DetOutcome(i) = Declined

\* C5 as stated: when the body is not a URI with a scheme and every detector
\* of the chain declines (an empty chain included), the call fails with an
\* 'invalid source string' error that echoes the address given; and every
\* failing call returns the empty string.
C5_AsStated ==
  /\ (pc = "done" /\ ~BodyHasScheme /\ AllDecline) =>
        (ret = <<>> /\ err = Err("invalid source string", src))
  /\ (pc = "done" /\ err # NoErr) => ret = <<>>

\* C5: when the body is not a URI with a scheme, the forced filepath resolver
\* that Detect tries first for the token git declines, and every detector of
\* the chain declines (an empty chain included), the call fails with an
\* 'invalid source string' error that echoes the address given; and every
\* failing call returns the empty string.
C5_AllDeclineInvalidSource ==
  /\ (pc = "done" /\ ~BodyHasScheme /\ ~ResolverSettles /\ AllDecline) =>
        (ret = <<>> /\ err = Err("invalid source string", src))
  /\ (pc = "done" /\ err # NoErr) => ret = <<>>

\* C5 happens: a chain of two declining detectors is exhausted on an address
\* with a forced token, and the error echoes the token too
C5_Witness ==
  /\ pc = "done" /\ ~BodyHasScheme /\ AllDecline
  /\ Len(ds) = 2 /\ Len(calls) = 2
  /\ getForce # <<>> /\ src # getSrc
  /\ err = Err("invalid source string", src)

\* ------------------------------------------------------------------------
\* Properties of the Git detectors and of the resolver (SpecFn, Spec)
\* ------------------------------------------------------------------------
\* the path of an SCP-style address as it appears in the ssh:// URI: after
\* exactly one slash
SlashPath(p) == IF HasPrefix(p, <<"/">>) THEN p ELSE <<"/">> \o p

sSSHGit == <<"s", "s", "h", ":", "/", "/", "g", "i", "t", "@">>

\* the address given is user@host:path[?query] with this user
IsScpOf(user) ==
  \E h \in ScpHosts, p \in ScpPaths, q \in Queries : src = Scp(user, h, p, q)

\* C6: for every SCP-style address git@host:path[?query], GitDetector.Detect
\* matches without error and returns git::ssh://git@host/path[?query], the
\* path after exactly one slash (a path that begins with a slash is not given
\* a second one).
C6_GitScpCommits ==
  (pc = "called" /\ variant = "GitDetector.Detect") =>
     \A h \in ScpHosts, p \in ScpPaths, q \in Queries :
        src = Scp(sGit, h, p, q) =>
           out = [uri |-> sGitForce \o sSSHGit \o h \o SlashPath(p) \o q,
                  ok |-> TRUE, err |-> NoErr]

\* C6 happens: GitDetector.Detect has returned on git@host:path?query
C6_Witness ==
  /\ pc = "called" /\ variant = "GitDetector.Detect"
  /\ IsScpOf(sGit) /\ Contains(src, <<"?">>)
  /\ out.ok

\* the address is filepath-shaped: absolute, or relative with a dot prefix
FilepathShaped(a) == filepath_IsAbs(a) \/ isLocalSourceAddr(a)

\* the address given is SCP-style with a user other than git: detectSSH
\* yields a URL and `u.User.Username() != "git"`
ScpNotGit == detectSSH(src).matched /\ detectSSH(src).u.Username # sGit

\* C7 as stated: for every SCP-style address whose user is not git, both
\* GitDetector.Detect and GitCtxDetector.CtxDetect return not matched, with
\* an empty uri and no error.
C7_AsStated ==
  (pc = "called" /\ variant \in {"GitDetector.Detect", "GitCtxDetector.CtxDetect"}
     /\ ScpNotGit) => out = Declined

\* C7: for every SCP-style address whose user is not git, GitDetector.Detect
\* always, and GitCtxDetector.CtxDetect whenever the forced token is not
\* exactly git, return not matched with an empty uri and no error; with the
\* forced token git, GitCtxDetector.CtxDetect does not decline: it fails with
\* "ssh username is not 'git'", unless the address is filepath-shaped and is
\* settled by the forced filepath resolver.
C7_NonGitUserDeclined ==
  (pc = "called" /\ ScpNotGit) =>
     /\ variant = "GitDetector.Detect" => out = Declined
     /\ (variant = "GitCtxDetector.CtxDetect" /\ getForce # sGit) => out = Declined
     /\ (variant = "GitCtxDetector.CtxDetect" /\ getForce = sGit) =>
           /\ out # Declined
           /\ ~FilepathShaped(src) =>
                 out = [uri |-> <<>>, ok |-> FALSE,
                        err |-> Err("ssh username is not 'git'", src)]

\* C7 happens: GitCtxDetector.CtxDetect has declined u@host:path?query under
\* a forced token other than git
C7_Witness ==
  /\ pc = "called" /\ variant = "GitCtxDetector.CtxDetect"
  /\ ScpNotGit /\ IsScpOf(<<"u">>) /\ Contains(src, <<"?">>)
  /\ getForce = <<"h", "g">>
  /\ out = Declined

\* C8: a successful call on [token::]git@host:path//subdir[?query] that the
\* Git detector matched returns token::ssh://git@host/path//subdir[?query],
\* the token being the caller's or else git: the subdir follows the path
\* after a // marker and the query follows the subdir.
C8_SubdirKept ==
  (pc = "done" /\ err = NoErr /\ calls # <<>> /\ ds[Len(calls)] = "Git") =>
     \A f \in Forces, h \in ScpHosts, p \in ScpPaths, n \in 1..MaxSubSegs, q \in Queries :
        src = f \o Scp(sGit, h, p, <<>>) \o <<"/", "/">> \o SubdirOf(n) \o q =>
           ret = (IF f = <<>> THEN sGitForce ELSE f) \o sSSHGit \o h \o SlashPath(p)
                    \o <<"/", "/">> \o SubdirOf(n) \o q

\* C8 happens: the first call on git@host:path//subdir?query, matched by the
\* Git detector, has returned
C8_Witness ==
  /\ pc = "done" /\ err = NoErr /\ round = 0
  /\ calls # <<>> /\ ds[Len(calls)] = "Git"
  /\ \E h \in ScpHosts, p \in ScpPaths :
        src = Scp(sGit, h, p, <<>>) \o <<"/", "/">> \o SubdirOf(MaxSubSegs) \o <<"?", "r", "=", "1">>
  /\ subDir = SubdirOf(MaxSubSegs)

\* C9: the token in front of a matched result is the caller's whenever the
\* caller gave one, even if the detector's result carries another one; it is
\* the detector's only if the caller gave none; and the result has no token
\* prefix if neither gave one.
C9_CallerTokenFirst ==
  (pc = "done" /\ err = NoErr /\ out.ok) =>
     /\ getForce # <<>> =>
          /\ getForcedGetter(ret).force = getForce
          /\ HasPrefix(ret, getForce \o <<":", ":">>)
     /\ (getForce = <<>> /\ getForcedGetter(out.uri).force # <<>>) =>
          /\ getForcedGetter(ret).force = getForcedGetter(out.uri).force
          /\ HasPrefix(ret, getForcedGetter(out.uri).force \o <<":", ":">>)
     /\ (getForce = <<>> /\ getForcedGetter(out.uri).force = <<>>) =>
          getForcedGetter(ret).force = <<>>

\* C9 happens: the caller forced hg, the Git detector answered with git, and
\* the call has returned
C9_Witness ==
  /\ pc = "done" /\ err = NoErr /\ out.ok /\ round = 0
  /\ getForce = <<"h", "g">>
  /\ getForcedGetter(out.uri).force = sGit
  /\ HasPrefix(ret, <<"h", "g", ":", ":", "s", "s", "h">>)

\* C10: detectGitForceFilepath returns not matched, with an empty uri and no
\* error, whenever the forced token is not exactly git or the address is
\* empty, whatever pwd and srcResolveFrom are.
C10_ResolverDeclines ==
  (pc = "called" /\ variant = "detectGitForceFilepath"
     /\ (getForce # sGit \/ src = <<>>)) => out = Declined

\* C10 happens: the resolver has returned on an absolute path under the
\* token written git:: in full
C10_Witness ==
  /\ pc = "called" /\ variant = "detectGitForceFilepath"
  /\ getForce = sGitForce
  /\ filepath_IsAbs(src)
  /\ out = Declined

\* the rule for a filepath: absolute, or beginning with ./ ../ .\ ..\ , or
\* exactly . or ..
FilepathByRule(a) ==
  \/ HasPrefix(a, <<"/">>)
  \/ a = <<".">> \/ a = <<".", ".">>
  \/ HasPrefix(a, <<".", "/">>) \/ HasPrefix(a, <<".", ".", "/">>)
  \/ HasPrefix(a, <<".", "\\">>) \/ HasPrefix(a, <<".", ".", "\\">>)

\* C11: under the token git, detectGitForceFilepath declines (not matched,
\* empty uri, no error) a non-empty address if and only if the address is
\* not a filepath by the rule above.
C11_FilepathShapeIff ==
  (pc = "called" /\ variant = "detectGitForceFilepath" /\ getForce = sGit /\ src # <<>>) =>
     (out = Declined <=> ~FilepathByRule(src))

\* C11 happens: the resolver has declined a/b?r=1 under the token git
C11_Witness ==
  /\ pc = "called" /\ variant = "detectGitForceFilepath" /\ getForce = sGit
  /\ src = <<"a", "/", "b", "?", "r", "=", "1">>
  /\ out = Declined

\* the resolver was called under the token git on a relative filepath
RelativeForced ==
  /\ pc = "called" /\ variant = "detectGitForceFilepath"
  /\ getForce = sGit
  /\ ~filepath_IsAbs(src) /\ isLocalSourceAddr(src)

\* C12: when a relative forced filepath is resolved and both srcResolveFrom
\* and pwd are given, only srcResolveFrom counts: the result is the one
\* obtained with any other pwd, rooted or not, and with a rooted
\* srcResolveFrom it is the file URI of srcResolveFrom joined with the
\* address.
C12_AlternateBaseFirst ==
  (RelativeForced /\ srcResolveFrom # <<>> /\ pwd # <<>>) =>
     /\ \A other \in FnDirs \ {<<>>} :
          out = detectGitForceFilepath(src, other, getForce, srcResolveFrom)
     /\ filepath_IsAbs(srcResolveFrom) =>
          out = fileURIOf(sGit, filepath_Join(srcResolveFrom, src))
     /\ out.err # Err("pwd is not rooted", pwd)

\* C12 happens: ./a was resolved against /v although pwd was the unrooted w
C12_Witness ==
  /\ RelativeForced
  /\ src = <<".", "/", "a">>
  /\ srcResolveFrom = <<"/", "v">> /\ pwd = <<"w">>
  /\ out.ok
  /\ out.uri = sGitForce \o sFile \o <<"/", "v", "/", "a">>

CtxRelativeNoPwd ==
  /\ pc = "done" /\ variant = "CtxDetect"
  /\ getForce = sGit
  /\ ~filepath_IsAbs(getSrc) /\ isLocalSourceAddr(getSrc)
  /\ pwd = <<>>
  /\ ds # <<>> /\ ds[1] = "Git"

ResolverMatched ==
  pc = "called" /\ variant = "detectGitForceFilepath" /\ out.ok

\* the address given as path?query: its path and its query (with the '?')
InPath == Cut(src, <<"?">>)[1]

InQuery == Drop(src, Len(InPath) + 1)

\* the path and the query (with the '?') of the URI returned, as written
OutPath == Cut(Drop(out.uri, Len(sGitForce \o sFile) + 1), <<"?">>)[1]

OutQuery == Drop(out.uri, Len(sGitForce \o sFile) + Len(OutPath) + 1)

LastSeg(p) == SplitSlash(p)[Len(SplitSlash(p))]

\* C15 as stated: every match of detectGitForceFilepath begins with
\* git::file:/// , the path of its URI has no segment . or .. , and that
\* path ends with the last segment of the path of the address (when that is
\* a name).
C15_AsStated ==
  ResolverMatched =>
     /\ HasPrefix(out.uri, sGitForce \o sFile \o <<"/">>)
     /\ \A i \in 1..Len(SplitSlash(OutPath)) :
          SplitSlash(OutPath)[i] \notin {<<".">>, <<".", ".">>}
     /\ LastSeg(InPath) \notin {<<>>, <<".">>, <<".", ".">>} =>
          HasSuffix(OutPath, <<"/">> \o escape(LastSeg(InPath), {"\\"}))

\* C16 as stated: for every filepath-shaped address path?query forced to
\* git, the URI returned carries the query of the address unchanged as its
\* query component, and no '?' escaped into its path.
C16_AsStated ==
  (ResolverMatched /\ Contains(src, <<"?">>)) =>
     /\ OutQuery = InQuery
     /\ ~Contains(OutPath, <<"%", "3", "F">>)

\* C23 as stated: detectGitForceFilepath called with force git on a rooted
\* address that holds a // returns git::file:// followed by the address, the
\* // kept; on an address beginning with ./ or ../ that holds a // it returns
\* a path in which the // is collapsed.
C23_AsStated ==
  (ResolverMatched /\ Contains(InPath, <<"/", "/">>)) =>
     IF filepath_IsAbs(src)
     THEN out.uri = sGitForce \o sFile \o src
     ELSE ~Contains(OutPath, <<"/", "/">>)

\* the implementation of CtxDetect named, applied
CtxDetectOf(name, a, dir, force, ctxSubDir, from) ==
  IF name = "GitCtxDetector.CtxDetect"
  THEN GitCtxDetector_CtxDetect(a, dir, force, ctxSubDir, from)
  ELSE FileCtxDetector_CtxDetect(a, dir, force, ctxSubDir, from)

\* the subdir that can be split off a detector's uri
UriSubdir(uri) ==
  LET forced(g) == SourceDirSubdir(g.src).subdir
  IN forced(getForcedGetter(uri))

\* C25: ctxSubDir is context only: for every (src, pwd, forceToken,
\* srcResolveFrom), the call of GitCtxDetector.CtxDetect or of
\* FileCtxDetector.CtxDetect returns the same (uri, matched, error) whatever
\* the ctxSubDir, and the uri of a match does not carry the ctxSubDir given.
C25_SubdirIsContextOnly ==
  (pc = "called" /\ variant \in CtxFns) =>
     /\ \A s \in FnSubdirs : CtxDetectOf(variant, src, pwd, getForce, s, srcResolveFrom) = out
     /\ (out.ok /\ out.err = NoErr /\ subDir # <<>>) => UriSubdir(out.uri) # subDir

\* C25 happens: GitCtxDetector.CtxDetect was called with a non-empty
\* ctxSubDir on an address it matches
C25_Witness ==
  /\ pc = "called" /\ variant = "GitCtxDetector.CtxDetect"
  /\ subDir = <<"s">>
  /\ out.ok /\ out.err = NoErr
  /\ getForce = sGit

\* C26: for a rooted address forced to git the resolver's result does not
\* depend on pwd or srcResolveFrom: the call succeeds, and with every other
\* pwd and srcResolveFrom (empty and unrooted ones included) it returns the
\* same uri and no error about a missing or unrooted base.
C26_RootedAddressIgnoresBases ==
  (pc = "called" /\ variant = "detectGitForceFilepath" /\ getForce = sGit
     /\ filepath_IsAbs(src)) =>
       /\ out.ok /\ out.err = NoErr
       /\ \A dir \in FnDirs, from \in FnDirs :
            detectGitForceFilepath(src, dir, getForce, from) = out

\* C26 happens: the resolver matched the rooted address /a/./b although pwd
\* is not rooted and srcResolveFrom is another unrooted directory
C26_Witness ==
  /\ pc = "called" /\ variant = "detectGitForceFilepath" /\ getForce = sGit
  /\ src = <<"/", "a", "/", ".", "/", "b">>
  /\ pwd = <<"w">> /\ srcResolveFrom = <<"w">>
  /\ out.ok /\ out.uri = sGitForce \o sFile \o <<"/", "a", "/", "b">>

\* ------------------------------------------------------------------------
\* Forced filepaths through Detect and CtxDetect (Spec)
\* ------------------------------------------------------------------------
\* the directory a relative forced filepath is resolved against
BaseDir ==
  IF variant = "Detect" THEN cwd
  ELSE IF srcResolveFrom # <<>> THEN srcResolveFrom ELSE pwd

ResolvedPath(p) == IF filepath_IsAbs(p) THEN p ELSE filepath_Join(BaseDir, p)

ForcedPaths == {<<"/", "a">>, <<".", "/", "a">>, <<".", ".", "/", "a">>}

\* the forced filepath step is reached: always in Detect, and in CtxDetect
\* when the chain begins with the Git detector
ForcedStepFirst == variant = "Detect" \/ (ds # <<>> /\ ds[1] = "Git")

PlainAddrs == {b \o sd \o q : b \in Bodies, sd \in Subdirs, q \in Queries}

\* p is neither a URI with a scheme, nor SCP-style, nor filepath-shaped
\* (judged on its body, the subdir split off)
Unrecognizable(p) ==
  LET shapeless(body) ==
        /\ ~(url_Parse(body).ok /\ url_Parse(body).u.Scheme # <<>>)
        /\ ~detectSSH(body).matched
        /\ ~FilepathShaped(body)
  IN shapeless(SourceDirSubdir(p).src)

\* C18 as stated: for every address p that is neither a URI with a scheme,
\* nor SCP-style, nor filepath-shaped, Detect(p, pwd, [Git]) and
\* Detect("git::" + p, pwd, [Git]) both fail and return the empty string.
C18_AsStated ==
  (pc = "done" /\ variant = "Detect" /\ ds = <<"Git">>) =>
     \A p \in PlainAddrs :
        (Unrecognizable(p) /\ (src = p \/ src = sGitForce \o p)) =>
           (err # NoErr /\ ret = <<>>)

\* ------------------------------------------------------------------------
\* Tokens and subdirs of detector results
\* ------------------------------------------------------------------------
\* s begins with a forced token: letters and digits, then "::", then more
BeginsWithToken(s) ==
  \E i \in 1..(Len(s) - 3) :
     /\ AllIn(Take(s, i), AlphaNum)
     /\ s[i + 1] = ":" /\ s[i + 2] = ":"

\* C19 as stated: the uri a detector returns on a match never begins with a
\* forced token.
C19_AsStated ==
  (pc = "called" /\ variant \in GitFns /\ out.ok) => ~BeginsWithToken(out.uri)

\* C19: the uri that GitDetector.Detect, GitCtxDetector.CtxDetect and
\* detectGitForceFilepath return on a match always begins with the token
\* git:: , and what follows the token begins with no further token.
C19_ResultCarriesGitToken ==
  (pc = "called" /\ variant \in GitFns /\ out.ok) =>
     /\ HasPrefix(out.uri, sGitForce)
     /\ ~BeginsWithToken(Drop(out.uri, Len(sGitForce) + 1))

\* C19 happens: GitCtxDetector.CtxDetect has matched an SCP-style address
\* under no forced token
C19_Witness ==
  /\ pc = "called" /\ variant = "GitCtxDetector.CtxDetect"
  /\ getForce = <<>> /\ IsScpOf(sGit)
  /\ out.ok
  /\ HasPrefix(out.uri, sGitForce \o sSSHGit)

\* handleDetected has returned a result, its token argument being a token
Handled ==
  /\ pc = "called" /\ variant = "handleDetected"
  /\ AllIn(getForce, AlphaNum)
  /\ out.ok

\* the subdir of the detector's result, and the subdir split off the output
DetectorSubdir == SourceDirSubdir(getForcedGetter(src).src).subdir

OutputSubdir == SourceDirSubdir(getForcedGetter(out.uri).src).subdir

\* C20 as stated: the subdir split off the output is exactly d/c when the
\* detector's result carried the subdir d and the caller asked for c, both
\* non-empty, and exactly the non-empty one when only one is.
C20_AsStated ==
  Handled =>
     /\ (DetectorSubdir # <<>> /\ subDir # <<>>) =>
          OutputSubdir = DetectorSubdir \o <<"/">> \o subDir
     /\ DetectorSubdir = <<>> => OutputSubdir = subDir
     /\ subDir = <<>> => OutputSubdir = DetectorSubdir

\* every segment of the path is a name: none is empty, . or ..
PlainSegments(p) ==
  \A i \in 1..Len(SplitSlash(p)) : SplitSlash(p)[i] \notin {<<>>, <<".">>, <<".", ".">>}

\* C20: the subdir split off the output is filepath.Join(d, c), the cleaned
\* d/c, when the detector's result carried the subdir d and the caller asked
\* for c, both non-empty: it is exactly d/c when every segment of d and c is
\* a name, and otherwise has doubled separators collapsed and .. segments
\* of c resolved against d; it is exactly the non-empty one when only one
\* is.
C20_SubdirMergeRoundTrip ==
  Handled =>
     /\ (DetectorSubdir # <<>> /\ subDir # <<>>) =>
          /\ OutputSubdir = filepath_Join(DetectorSubdir, subDir)
          /\ (PlainSegments(DetectorSubdir) /\ PlainSegments(subDir)) =>
               OutputSubdir = DetectorSubdir \o <<"/">> \o subDir
     /\ DetectorSubdir = <<>> => OutputSubdir = subDir
     /\ subDir = <<>> => OutputSubdir = DetectorSubdir

\* C20 happens: a result with token, subdir d and no query was merged with
\* the subdir s of the caller, who gave no token
C20_Witness ==
  /\ Handled
  /\ src = sHgResult /\ subDir = SubdirOf(1) /\ getForce = <<>>
  /\ out.uri = sHgResult \o <<"/">> \o SubdirOf(1)

\* ------------------------------------------------------------------------
\* Place of the forced filepath resolver among the detectors (Spec)
\* ------------------------------------------------------------------------
\* the caller forced git on a body that is no URI with a scheme, and the call
\* is past its resolver step
ForcedGitBody == getForce = sGit /\ ~ValidURL(getSrc) /\ pc \in {"loop", "done"}

\* the resolver of this variant matches the body
ResolverMatches ==
  IF variant = "Detect" THEN detectGitForceFilepathLegacy(getSrc, pwd, getForce, cwd).ok
  ELSE detectGitForceFilepath(getSrc, pwd, getForce, srcResolveFrom).ok

\* index of the first member of the chain that does not decline a body the
\* resolver matches (the Git detector of CtxDetect matches it, by its
\* resolver); 0 when every member declines
FirstClaiming ==
  LET S == {k \in 1..Len(ds) : ds[k] # "Decline"}
  IN IF S = {} THEN 0 ELSE CHOOSE k \in S : \A j \in S : k <= j

\* the result of handleDetected on the uri of a match
HandledResult(uri) == handleDetected(uri, getForce, subDir).result

\* C22 as stated: for every chain the resolver is tried before any detector
\* (in CtxDetect: the first detector invoked is the Git one, whose first step
\* is the resolver), and when it matches no other detector is invoked.
C22_AsStated ==
  ForcedGitBody =>
     /\ calls # <<>> => (resolverTried \/ ds[calls[1].index] = "Git")
     /\ ResolverMatches => \A k \in 1..Len(calls) : ds[calls[k].index] = "Git"

\* C22: Detect tries the forced filepath resolver before any detector, for
\* every chain, and a match of it returns with no detector invoked. CtxDetect
\* has no resolver step of its own: the resolver runs inside the Git detector,
\* at that detector's place in the chain, so on a body the resolver matches
\* the detectors in front of the Git detector are invoked first; the call
\* returns the resolver's result only if they all declined, the result or
\* the error of the first of them that does not decline otherwise, and the
\* invalid source error when the chain holds no Git detector and every member
\* declines.
C22_ResolverFirstOnlyInDetect ==
  ForcedGitBody =>
     /\ variant = "Detect" =>
          /\ resolverTried
          /\ ResolverMatches => (calls = <<>> /\ pc = "done" /\ err = NoErr)
     /\ (variant = "CtxDetect" /\ ResolverMatches /\ pc = "done") =>
          LET k == FirstClaiming
          IN /\ Len(calls) = IF k = 0 THEN Len(ds) ELSE k
             /\ \A i \in 1..Len(calls) : calls[i].index = i
             /\ k = 0 => err = Err("invalid source string", src)
             /\ (k # 0 /\ ds[k] = "Fail") => err # NoErr
             /\ (k # 0 /\ ds[k] = "Hg") =>
                  /\ err = NoErr
                  /\ ret = HandledResult(StubDetect("Hg", getSrc).uri)
             /\ (k # 0 /\ ds[k] = "Git") =>
                  /\ err = NoErr
                  /\ ret = HandledResult(detectGitForceFilepath(getSrc, pwd, getForce,
                                                                srcResolveFrom).uri)

\* C22 happens: CtxDetect on git::./a, which the resolver matches, with a
\* chain of a detector that claims every address and the Git detector behind
\* it, returned the first detector's result after that single invocation
C22_Witness ==
  /\ ForcedGitBody /\ ResolverMatches /\ pc = "done" /\ err = NoErr
  /\ variant = "CtxDetect"
  /\ getSrc = <<".", "/", "a">>
  /\ Len(ds) = 2 /\ ds[1] = "Hg" /\ ds[2] = "Git"
  /\ Len(calls) = 1
  /\ ~HasPrefix(ret, sGitForce \o sFile)

\* the body is one the Git detector cannot read: empty, neither
\* filepath-shaped nor SCP-like, or SCP-like with a user other than git
UnreadableForGit(a) ==
  LET ssh(r) ==
        /\ r.err = NoErr
        /\ \/ ~r.matched /\ ~FilepathShaped(a)
           \/ r.matched /\ ~isGitUser(r.u)
  IN a = <<>> \/ ssh(detectSSH(a))

\* what GitCtxDetector.CtxDetect answers to the empty address, the other
\* arguments being those of this call
OnEmptyAddress == GitCtxDetector_CtxDetect(<<>>, pwd, getForce, subDir, srcResolveFrom)

\* C24: with the forced token git, GitCtxDetector.CtxDetect never declines:
\* every invocation matches or fails (the empty address fails), so the Git
\* detector is the last detector CtxDetect invokes and no detector behind it
\* is tried; with any other token, or none, the addresses it cannot read
\* (empty, neither filepath-shaped nor SCP-like, SCP-like with a user other
\* than git) are declined without error.
C24_ForcedGitNeverDeclines ==
  variant = "CtxDetect" =>
     /\ IF getForce = sGit
        THEN ~OnEmptyAddress.ok /\ OnEmptyAddress.err # NoErr
        ELSE OnEmptyAddress = Declined
     /\ \A k \in 1..Len(calls) :
          ds[calls[k].index] = "Git" =>
             /\ getForce = sGit =>
                  /\ calls[k].ok \/ calls[k].failed
                  /\ k = Len(calls)
                  /\ pc = "done"
                  /\ UnreadableForGit(getSrc) => (calls[k].failed /\ err # NoErr)
             /\ (getForce # sGit /\ UnreadableForGit(getSrc)) =>
                  (~calls[k].ok /\ ~calls[k].failed)

\* C24 happens: CtxDetect on git::a with the Git detector in front of a
\* detector that claims every address has failed after the one invocation
C24_Witness ==
  /\ variant = "CtxDetect" /\ pc = "done"
  /\ getForce = sGit /\ getSrc = <<"a">>
  /\ Len(ds) = 2 /\ ds[1] = "Git" /\ ds[2] = "Hg"
  /\ Len(calls) = 1 /\ calls[1].failed
  /\ err # NoErr

\* the call returned the reassembled match of a detector or of the resolver
MatchReturned == pc = "done" /\ err = NoErr /\ out.ok

\* C27: a successful output made from a match carries at most one forced
\* token: what follows its token, if it has one, does not begin with a token
\* again; and when the caller forced git and the match itself begins with
\* git::, the output begins with git:: once, not with git::git::.
C27_OneForcedToken ==
  MatchReturned =>
     LET rest(g) == ~BeginsWithToken(g.src)
     IN /\ rest(getForcedGetter(ret))
        /\ (getForce = sGit /\ HasPrefix(out.uri, sGitForce)) =>
             /\ HasPrefix(ret, sGitForce)
             /\ ~HasPrefix(ret, sGitForce \o sGitForce)

\* C27 happens: the caller forced git on an SCP-like address and the Git
\* detector, invoked by the loop, matched with a uri that begins with git::
C27_Witness ==
  /\ MatchReturned
  /\ getForce = sGit
  /\ calls # <<>> /\ ds[calls[Len(calls)].index] = "Git"
  /\ HasPrefix(out.uri, sGitForce \o <<"s", "s", "h", ":">>)
  /\ HasPrefix(ret, sGitForce \o <<"s", "s", "h", ":">>)

\* the detectors were invoked one after the other, each at most once and in
\* the order of the chain, all with the same arguments, and only a decline
\* was followed by another invocation
SinglePass ==
  /\ Len(calls) <= Len(ds)
  /\ \A k \in 1..Len(calls) :
       /\ calls[k].index = k
       /\ calls[k].src = getSrc
       /\ calls[k].pwd = pwd
       /\ calls[k].force = (IF variant = "Detect" THEN <<>> ELSE getForce)
       /\ calls[k].subdir = (IF variant = "Detect" THEN <<>> ELSE subDir)
       /\ calls[k].from = srcResolveFrom
       /\ k < Len(calls) => (~calls[k].ok /\ ~calls[k].failed)
  /\ pc = "done" => (err = NoErr \/ ret = <<>>)

\* how far the call, and its re-application by the caller, are from their
\* end at most: 0 when nothing is left to do
StepsLeft ==
  LET position == IF pc = "start" THEN Len(ds) + 3
                  ELSE IF pc = "force" THEN Len(ds) + 2
                  ELSE IF pc = "loop" THEN Len(ds) + 2 - idx
                  ELSE 0
  IN (1 - round) * (Len(ds) + 4) + position

\* the call is at a statement of Detect or CtxDetect that has a next step: the
\* split of the address, the resolver step of Detect, an iteration of the
\* loop, or the return behind the loop
HasStep ==
  \/ pc = "start"
  \/ pc = "force" /\ variant = "Detect"
  \/ pc = "loop" /\ variant \in {"Detect", "CtxDetect"} /\ idx \in 1..(Len(ds) + 1)

\* C28: every call of Detect or CtxDetect on a finite chain ends, with a
\* result or with an error, after a single pass over the chain: each
\* detector is invoked at most once, in increasing index order, always with
\* the same body, pwd, forced token, subdir and alternate base, and none is
\* tried again. The call ends because, until it has returned, it is at a
\* statement from which it goes on, and every step brings it nearer to its
\* end.
C28_SinglePassTerminates ==
  /\ [](SinglePass /\ StepsLeft >= 0 /\ (pc # "done" => HasStep))
  /\ [][StepsLeft' < StepsLeft]_vars

\* C28 happens: CtxDetect with a token and a subdir has ended with the
\* invalid source error after both detectors of its chain were invoked and
\* declined
C28_Witness ==
  /\ variant = "CtxDetect" /\ pc = "done" /\ round = 0
  /\ getForce # <<>> /\ subDir # <<>>
  /\ Len(ds) = 2 /\ Len(calls) = 2
  /\ ~calls[1].ok /\ ~calls[2].ok /\ ~calls[2].failed
  /\ err = Err("invalid source string", src)

\* ------------------------------------------------------------------------
\* Properties of calls in flight at the same time (SpecPar)
\* ------------------------------------------------------------------------
\* the call c run from its current position to its return with no other call
\* in flight, on the chain given
RECURSIVE runAlone(_, _, _)
runAlone(c, chain, procDir) ==
  IF c.pc = "done" THEN c
  ELSE IF c.pc = "start" THEN runAlone(callStart(c), chain, procDir)
  ELSE IF c.pc = "force" THEN runAlone(callForce(c, procDir), chain, procDir)
  ELSE IF c.idx <= Len(chain) THEN runAlone(callIterate(c, chain[c.idx]), chain, procDir)
  ELSE callExhausted(c)

\* what the call of goroutine g returns when it runs alone
AloneResult(g) ==
  LET returned(c) == <<c.ret, c.err>>
  IN returned(runAlone(NewCall(gs[g].variant, gs[g].src, gs[g].pwd, gs[g].srcResolveFrom,
                               gs[g].given),
                       gs[g].given, cwd))

\* C21: no call of Detect or CtxDetect modifies the chain it was given or any
\* other state the calls share, so whatever the interleaving of the steps of
\* two calls, each returns exactly what it returns when it runs alone.
C21_CallsIndependent ==
  \A g \in Goroutines :
    /\ ds = gs[g].given
    /\ gs[g].pc = "done" => <<gs[g].ret, gs[g].err>> = AloneResult(g)

\* both calls returned, a Detect and a CtxDetect of different addresses, each
\* after the first detector of the shared chain declined and the second matched
C21_Witness ==
  /\ Len(ds) = 2
  /\ gs["g1"].variant = "Detect" /\ gs["g2"].variant = "CtxDetect"
  /\ gs["g1"].src # gs["g2"].src
  /\ \A g \in Goroutines : gs[g].pc = "done" /\ gs[g].idx = 2 /\ gs[g].err = NoErr
  /\ gs["g1"].ret # gs["g2"].ret
====
